---------------------------- MODULE Spec2Model ----------------------------
(***************************************************************************)
(* Model of the kirana-store cash-flow service (src/app.py).               *)
(*                                                                         *)
(* Texts are sequences of one-character strings.  Money is counted in      *)
(* hundredths of a rupee (the amount pattern admits exactly zero or two    *)
(* decimals), timestamps in whole days.  The SQLite file is modelled by    *)
(* its committed tables, the write lock and each connection's uncommitted  *)
(* working copy.                                                           *)
(***************************************************************************)
EXTENDS Integers, Sequences, FiniteSets, TLC

VARIABLES
    transactions,   \* committed rows of table transactions, in rowid order
    inventory,      \* committed rows of table inventory, in rowid order
    inv_seq,        \* sqlite_sequence entry of inventory (AUTOINCREMENT)
    writer,         \* request holding the database write lock, 0 when free
    today,          \* the clock, in days
    req,            \* per request thread: position and locals of process_input
    submits,        \* number of requests received so far
    call            \* the last call of an agent made on its own: function, argument, result

vars == <<transactions, inventory, inv_seq, writer, today, req, submits, call>>

-----------------------------------------------------------------------------
(* Bounds of the model *)

NumThreads == 2
MaxSubmits == 2

-----------------------------------------------------------------------------
(* Characters and strings *)

Digits == {"0", "1", "2", "3", "4", "5", "6", "7", "8", "9"}

IsDigit(c) == c \in Digits

IsSpace(c) == c \in {" ", "\t", "\n"}

DigitVal(c) ==
    CASE c = "0" -> 0 [] c = "1" -> 1 [] c = "2" -> 2 [] c = "3" -> 3
      [] c = "4" -> 4 [] c = "5" -> 5 [] c = "6" -> 6 [] c = "7" -> 7
      [] c = "8" -> 8 [] c = "9" -> 9

UpperChars == <<"A", "B", "C", "D", "E", "F", "G", "H", "I", "J", "K", "L", "M",
                "N", "O", "P", "Q", "R", "S", "T", "U", "V", "W", "X", "Y", "Z">>

LowerChars == <<"a", "b", "c", "d", "e", "f", "g", "h", "i", "j", "k", "l", "m",
                "n", "o", "p", "q", "r", "s", "t", "u", "v", "w", "x", "y", "z">>

LowerChar(c) ==
    IF \E k \in DOMAIN UpperChars : UpperChars[k] = c
    THEN LowerChars[CHOOSE k \in DOMAIN UpperChars : UpperChars[k] = c]
    ELSE c

\* str.lower()
Lower(s) == [k \in DOMAIN s |-> LowerChar(s[k])]

\* the character of s at p, or "" past the end
At(s, p) == IF p \in DOMAIN s THEN s[p] ELSE ""

\* s[p:].startswith(w)
StartsAt(s, p, w) == \A k \in DOMAIN w : At(s, p + k - 1) = w[k]

\* w in s
Contains(s, w) == \E p \in DOMAIN s : StartsAt(s, p, w)

\* first position at or after p that holds no digit: the end of a greedy \d+
DigitsEnd(s, p) ==
    CHOOSE e \in p..(Len(s) + 1) :
        /\ ~IsDigit(At(s, e))
        /\ \A k \in p..(e - 1) : IsDigit(s[k])

\* first position at or after p that holds no whitespace: the end of \s*
SpacesEnd(s, p) ==
    CHOOSE e \in p..(Len(s) + 1) :
        /\ ~IsSpace(At(s, e))
        /\ \A k \in p..(e - 1) : IsSpace(s[k])

RECURSIVE ToInt(_, _, _)
\* int(s[a:b]) for a run of digits (positions a .. b-1)
ToInt(s, a, b) ==
    IF b <= a THEN 0 ELSE 10 * ToInt(s, a, b - 1) + DigitVal(s[b - 1])

Min(S) == CHOOSE x \in S : \A y \in S : x <= y

-----------------------------------------------------------------------------
(* parse_transaction_text *)

W_rs == <<"r", "s">>
W_rupee == <<"r", "u", "p", "e", "e">>
W_rupeesign == <<"₹">>

\* the currency alternation (?:rs\.?|rupees?|₹) as a prefix test
IsCurrencyAt(s, p) ==
    StartsAt(s, p, W_rs) \/ StartsAt(s, p, W_rupee) \/ StartsAt(s, p, W_rupeesign)

\* end of the greedy match of the currency alternation that starts at p
CurrencyEnd(s, p) ==
    IF StartsAt(s, p, W_rs)
    THEN (IF At(s, p + 2) = "." THEN p + 3 ELSE p + 2)
    ELSE IF StartsAt(s, p, W_rupee)
    THEN (IF At(s, p + 5) = "s" THEN p + 6 ELSE p + 5)
    ELSE p + 1

\* whether (?:\.\d{2}) matches at d
HasFraction(s, d) ==
    At(s, d) = "." /\ IsDigit(At(s, d + 1)) /\ IsDigit(At(s, d + 2))

\* float() of the number \d+(?:\.\d{2})? that starts at q, in hundredths
NumberAt(s, q, withFraction) ==
    LET d == DigitsEnd(s, q)
    IN  100 * ToInt(s, q, d) + (IF withFraction THEN ToInt(s, d + 1, d + 3) ELSE 0)

\* first alternative at p: currency token, whitespace, number
AmountBefore(s, p) ==
    IsCurrencyAt(s, p) /\ IsDigit(At(s, SpacesEnd(s, CurrencyEnd(s, p))))

\* second alternative at p, number with decimals, whitespace, currency token
AmountAfterFrac(s, p) ==
    /\ IsDigit(At(s, p))
    /\ HasFraction(s, DigitsEnd(s, p))
    /\ IsCurrencyAt(s, SpacesEnd(s, DigitsEnd(s, p) + 3))

\* second alternative at p, number without decimals, whitespace, currency token
AmountAfterInt(s, p) ==
    /\ IsDigit(At(s, p))
    /\ IsCurrencyAt(s, SpacesEnd(s, DigitsEnd(s, p)))

AmountMatches(s) ==
    {p \in DOMAIN s : AmountBefore(s, p) \/ AmountAfterFrac(s, p) \/ AmountAfterInt(s, p)}

\* re.search(amount_pattern, text) and float(group(1) or group(2)), else 0.0
ExtractAmount(s) ==
    IF AmountMatches(s) = {} THEN 0
    ELSE LET p == Min(AmountMatches(s))
         IN  IF AmountBefore(s, p)
             THEN LET q == SpacesEnd(s, CurrencyEnd(s, p))
                  IN  NumberAt(s, q, HasFraction(s, DigitsEnd(s, q)))
             ELSE NumberAt(s, p, AmountAfterFrac(s, p))

PurchaseWords == {
    <<"b", "u", "y">>,
    <<"p", "u", "r", "c", "h", "a", "s", "e">>,
    <<"b", "o", "u", "g", "h", "t">>,
    <<"s", "u", "p", "p", "l", "i", "e", "r">> }

ExtractType(s) ==
    IF \E w \in PurchaseWords : Contains(s, w) THEN "purchase" ELSE "sale"

\* the catalog, in its order, with the name stored for each entry
Items == <<
    [word |-> <<"r", "i", "c", "e">>, name |-> "rice"],
    [word |-> <<"w", "h", "e", "a", "t">>, name |-> "wheat"],
    [word |-> <<"s", "u", "g", "a", "r">>, name |-> "sugar"],
    [word |-> <<"o", "i", "l">>, name |-> "oil"],
    [word |-> <<"d", "a", "l">>, name |-> "dal"],
    [word |-> <<"t", "e", "a">>, name |-> "tea"],
    [word |-> <<"s", "a", "l", "t">>, name |-> "salt"],
    [word |-> <<"m", "i", "l", "k">>, name |-> "milk"],
    [word |-> <<"b", "i", "s", "c", "u", "i", "t">>, name |-> "biscuit"] >>

ExtractItem(s) ==
    LET hits == {k \in DOMAIN Items : Contains(s, Items[k].word)}
    IN  IF hits = {} THEN "general" ELSE Items[Min(hits)].name

UnitWords == {
    <<"k", "g">>,
    <<"k", "i", "l", "o">>,
    <<"p", "a", "c", "k", "e", "t">>,
    <<"u", "n", "i", "t">>,
    <<"p", "i", "e", "c", "e">> }

\* (\d+)\s*(?:kg|kg\.|kilos?|packets?|units?|pieces?) at p
QuantityAt(s, p) ==
    /\ IsDigit(At(s, p))
    /\ \E w \in UnitWords : StartsAt(s, SpacesEnd(s, DigitsEnd(s, p)), w)

QuantityMatches(s) == {p \in DOMAIN s : QuantityAt(s, p)}

\* re.search(quantity_pattern, text) and int(group(1)), else 1
ExtractQuantity(s) ==
    IF QuantityMatches(s) = {} THEN 1
    ELSE LET p == Min(QuantityMatches(s)) IN ToInt(s, p, DigitsEnd(s, p))

parse_transaction_text(text) ==
    LET s == Lower(text)
    IN  [item |-> ExtractItem(s),
         amount |-> ExtractAmount(s),
         type |-> ExtractType(s),
         quantity |-> ExtractQuantity(s),
         payment_method |-> "cash"]

-----------------------------------------------------------------------------
(* Strings built by the program: a string is the tuple of its pieces *)

Str(x) == <<x>>

None == [none |-> TRUE]

RECURSIVE GCD(_, _)
GCD(a, b) == IF b = 0 THEN a ELSE GCD(b, a % b)

\* the quotient a / b of a float division, b > 0, kept exact as a reduced fraction
Quotient(a, b) ==
    LET g == GCD(a, b) IN [num |-> a \div g, den |-> b \div g]

RECURSIVE SumSeq(_)
SumSeq(s) == IF s = <<>> THEN 0 ELSE s[1] + SumSeq(Tail(s))

\* mutant: the quotient is cut off instead of rounded
RoundOutcomesTruncated(num, den) == {num \div den}

\* the integers nearest to num / den (den > 0): both neighbours on an exact
\* tie, which the binary representation of the float decides in the program
RoundOutcomes(num, den) ==
    LET f == num \div den
    IN  {k \in {f, f + 1} : 2 * (den * k - num) <= den /\ 2 * (num - den * k) <= den}

RECURSIVE ISqrtIn(_, _, _)
\* the r in lo..hi with r * r <= n < (r + 1) * (r + 1), by bisection
ISqrtIn(n, lo, hi) ==
    IF lo >= hi THEN lo
    ELSE LET mid == (lo + hi + 1) \div 2
         IN  IF mid * mid <= n THEN ISqrtIn(n, mid, hi) ELSE ISqrtIn(n, lo, mid - 1)

\* floor of the square root (n below 2^30)
ISqrt(n) == ISqrtIn(n, 0, 32767)

-----------------------------------------------------------------------------
(* The tables and the statements process_input executes on them *)

ReorderDefault == 10
WindowDays == 30
MinHistory == 10
SigmaFactor == 3

\* INSERT INTO transactions (...) VALUES (...): AUTOINCREMENT id, no row is ever deleted
InsertTransaction(txns, timestamp, parsed) ==
    Append(txns, [id |-> Len(txns) + 1,
                  timestamp |-> timestamp,
                  item |-> parsed.item,
                  amount |-> parsed.amount,
                  type |-> parsed.type,
                  payment_method |-> parsed.payment_method,
                  customer_name |-> "Customer"])

\* mutant: the quantity is not allowed below zero
SaleUpdateClamped(inv, item, quantity) ==
    [k \in DOMAIN inv |->
        IF inv[k].item_name = item
        THEN [inv[k] EXCEPT !.quantity = IF @ - quantity < 0 THEN 0 ELSE @ - quantity]
        ELSE inv[k]]

\* UPDATE inventory SET quantity = quantity - ? WHERE item_name = ?
SaleUpdate(inv, item, quantity) ==
    [k \in DOMAIN inv |->
        IF inv[k].item_name = item
        THEN [inv[k] EXCEPT !.quantity = @ - quantity]
        ELSE inv[k]]

\* mutant: the stored quantity is not read
StoredQuantityIgnored(inv, item) == 0

\* COALESCE((SELECT quantity FROM inventory WHERE item_name = ?), 0)
StoredQuantity(inv, item) ==
    IF \E k \in DOMAIN inv : inv[k].item_name = item
    THEN inv[CHOOSE k \in DOMAIN inv : inv[k].item_name = item].quantity
    ELSE 0

\* INSERT OR REPLACE INTO inventory: the row that conflicts on item_name is
\* deleted and the new row is stored under a fresh AUTOINCREMENT id
PurchaseUpsert(inv, seq, item, quantity, unit_price, timestamp) ==
    Append(SelectSeq(inv, LAMBDA row : row.item_name # item),
           [id |-> seq + 1,
            item_name |-> item,
            quantity |-> StoredQuantity(inv, item) + quantity,
            reorder_level |-> ReorderDefault,
            unit_price |-> unit_price,
            last_updated |-> timestamp])

\* the working copy a connection holds once its implicit transaction has begun
OpenTransaction(txns, inv, seq) ==
    [transactions |-> txns, inventory |-> inv, inv_seq |-> seq]

\* lines 206-211 on a connection
ExecuteInsert(conn, timestamp, parsed) ==
    [conn EXCEPT !.transactions = InsertTransaction(@, timestamp, parsed)]

\* whether evaluating the arguments of the inventory statement raises
UpdateRaises(parsed) == parsed.type # "sale" /\ parsed.quantity = 0

\* lines 214-225 on a connection, when nothing raises
ExecuteUpdate(conn, timestamp, parsed) ==
    IF parsed.type = "sale"
    THEN [conn EXCEPT !.inventory = SaleUpdate(@, parsed.item, parsed.quantity)]
    ELSE [conn EXCEPT
            !.inventory = PurchaseUpsert(@, conn.inv_seq, parsed.item, parsed.quantity,
                                         Quotient(parsed.amount, parsed.quantity), timestamp),
            !.inv_seq = @ + 1]

\* mutant: a connection in autocommit mode
VisibleAutocommit(committed, working) == working

\* what other connections read of a table while a connection has executed a
\* statement and not committed: sqlite3's implicit transaction keeps it private
VisibleUncommitted(committed, working) == committed

-----------------------------------------------------------------------------
(* Agent 1: cash_flow_forecast *)

\* mutant: the window starts 30 days ahead
WindowAhead(txns, now) == SelectSeq(txns, LAMBDA t : t.timestamp >= now + WindowDays)

Window(txns, now) == SelectSeq(txns, LAMBDA t : t.timestamp >= now - WindowDays)

AmountsOfType(txns, type) ==
    LET rows == SelectSeq(txns, LAMBDA t : t.type = type)
    IN  [k \in DOMAIN rows |-> rows[k].amount]

\* the possible results (one, unless round() meets an exact tie)
cash_flow_forecast(txns, now) ==
    LET window == Window(txns, now)
        sales == SumSeq(AmountsOfType(window, "sale"))
        purchases == SumSeq(AmountsOfType(window, "purchase"))
        net_flow == sales - purchases
        \* daily_avg = net_flow / 30 is negative exactly when net_flow is
        shortage_predicted == net_flow < 0
    IN  IF window = <<>>
        THEN {[shortage_predicted |-> FALSE, recommendation |-> Str("Insufficient data")]}
        ELSE {[shortage_predicted |-> shortage_predicted,
               daily_avg_flow |-> rounded,
               recommendation |->
                   IF shortage_predicted
                   THEN Str("Cash shortage expected. Consider delaying purchases or securing short-term loan.")
                   ELSE Str("No action needed")]
              : rounded \in RoundOutcomes(net_flow, WindowDays)}

-----------------------------------------------------------------------------
(* Agent 2: inventory_alert *)

\* mutant: rows at their reorder level are not reported
inventory_alert_below(inv) ==
    LET low_stock_items == SelectSeq(inv, LAMBDA row : row.quantity < row.reorder_level)
    IN  [stock_low |-> Len(low_stock_items) > 0,
         items_to_reorder |->
             [k \in DOMAIN low_stock_items |->
                 [item |-> low_stock_items[k].item_name,
                  current |-> low_stock_items[k].quantity,
                  reorder_level |-> low_stock_items[k].reorder_level]]]

inventory_alert(inv) ==
    LET low_stock_items == SelectSeq(inv, LAMBDA row : row.quantity <= row.reorder_level)
    IN  [stock_low |-> Len(low_stock_items) > 0,
         items_to_reorder |->
             [k \in DOMAIN low_stock_items |->
                 [item |-> low_stock_items[k].item_name,
                  current |-> low_stock_items[k].quantity,
                  reorder_level |-> low_stock_items[k].reorder_level]]]

-----------------------------------------------------------------------------
(* Agent 3: fraud_detection *)

\* n^2 * sum((x - mean)^2): numpy's std squares the deviations from the mean
ScaledSquaredDeviations(amounts) ==
    LET n == Len(amounts)
        total == SumSeq(amounts)
    IN  SumSeq([k \in DOMAIN amounts |-> (n * amounts[k] - total) * (n * amounts[k] - total)])

\* mutant: an amount at the threshold is flagged too
ExceedsThresholdInclusive(x, amounts) ==
    LET n == Len(amounts)
        d == n * x - SumSeq(amounts)
    IN  d >= 0 /\ n * d * d >= SigmaFactor * SigmaFactor * ScaledSquaredDeviations(amounts)

\* x > mean + 3 * std, with std = sqrt(sum((x - mean)^2) / n)
ExceedsThreshold(x, amounts) ==
    LET n == Len(amounts)
        d == n * x - SumSeq(amounts)
    IN  d > 0 /\ n * d * d > SigmaFactor * SigmaFactor * ScaledSquaredDeviations(amounts)

\* round(threshold, 2) in hundredths: the integers k within 1/2 of
\* (total + 3 * sqrt(dev / n)) / n, with dev = ScaledSquaredDeviations
ThresholdOutcomes(amounts) ==
    LET n == Len(amounts)
        total == SumSeq(amounts)
        dev == ScaledSquaredDeviations(amounts)
        \* 2 * n * (k - threshold) = a(k) - sqrt(w), with w = 36 * dev / n
        a(k) == 2 * (n * k - total)
        guess == (total + SigmaFactor * ISqrt(dev \div n)) \div n
    IN  {k \in (guess - 1)..(guess + 2) :
            /\ (a(k) - n <= 0 \/ n * (a(k) - n) * (a(k) - n) <= 4 * SigmaFactor * SigmaFactor * dev)
            /\ (a(k) + n >= 0 /\ n * (a(k) + n) * (a(k) + n) >= 4 * SigmaFactor * SigmaFactor * dev)}

\* the possible results (one, unless round() meets an exact tie)
fraud_detection(txns, transaction_amount) ==
    LET amounts == AmountsOfType(txns, "sale")
    IN  IF Len(amounts) < MinHistory
        THEN {[fraud_suspected |-> FALSE, reason |-> Str("Insufficient data")]}
        ELSE IF ExceedsThreshold(transaction_amount, amounts)
        THEN {[fraud_suspected |-> TRUE,
               reason |-> <<"Transaction amount (₹", transaction_amount,
                            ") exceeds normal range (₹", threshold, ")">>]
              : threshold \in ThresholdOutcomes(amounts)}
        ELSE {[fraud_suspected |-> FALSE, reason |-> Str("Transaction within normal range")]}

-----------------------------------------------------------------------------
(* Alert generation, lines 235-258 *)

GenerateAlerts(cf_result, inv_result, fraud_result) ==
    (IF cf_result.shortage_predicted
     THEN <<[type |-> "cash_flow", message |-> cf_result.recommendation, severity |-> "high"]>>
     ELSE <<>>)
    \o
    (IF inv_result.stock_low
     THEN [k \in DOMAIN inv_result.items_to_reorder |->
            [type |-> "inventory",
             message |-> <<"Low stock: ", inv_result.items_to_reorder[k].item, " - Reorder needed">>,
             severity |-> "medium"]]
     ELSE <<>>)
    \o
    (IF fraud_result.fraud_suspected
     THEN <<[type |-> "fraud", message |-> fraud_result.reason, severity |-> "critical"]>>
     ELSE <<>>)

-----------------------------------------------------------------------------
(* Requests *)

Threads == 1..NumThreads

\* writer value of a connection that raised and has not been finalized yet
Leaked == NumThreads + 1

T_sold == <<"s", "o", "l", "d">>
T_bought == <<"B", "o", "u", "g", "h", "t">>
T_rice == <<" ", "r", "i", "c", "e">>
T_sugar == <<" ", "s", "u", "g", "a", "r">>
T_kg == <<" ", "k", "g">>
T_packets == <<" ", "p", "a", "c", "k", "e", "t", "s">>
T_for == <<" ", "f", "o", "r">>

\* the request bodies the model submits; data.get('text', '') of a body
\* without the key is the empty string
Bodies == {
    [text |-> T_sold \o T_rice],
    [text |-> T_sold \o <<" ", "1", "2">> \o T_kg \o T_rice \o T_for \o <<" ", "r", "s", " ", "1">>],
    [text |-> T_bought \o <<" ", "1", "1">> \o T_kg \o T_rice \o T_for \o <<" ", "R", "s", ".", "0", ".", "1", "0">>],
    [text |-> T_bought \o <<" ", "2">> \o T_packets \o T_sugar \o <<" ", "0", ".", "5", "0", " ", "r", "u", "p", "e", "e", "s">>],
    [text |-> T_bought \o <<" ", "0">> \o T_kg \o T_rice \o <<" ", "₹", "1">>],
    [text |-> <<>>],
    [other |-> TRUE] }

GetText(data) == IF "text" \in DOMAIN data THEN data.text ELSE <<>>

IdleRequest ==
    [pc |-> "idle", data |-> None, parsed |-> None, timestamp |-> 0, conn |-> None,
     rowid |-> 0, cf_result |-> None, inv_result |-> None, response |-> None]

\* mutant: the text is not checked
NoInputUnchecked(input_text) == FALSE

\* not input_text
NoInput(input_text) == input_text = <<>>

\* mutant: no lock is taken
LockNeverHeld(holder) == TRUE

\* whether a connection's first write statement gets the lock: no other
\* connection has a transaction open
LockFree(holder) == holder = 0

ErrorResponse(status, message) == [status |-> status, error |-> Str(message)]

\* the ledger a run of the service leaves behind: requests served one after another
RECURSIVE ServeAll(_, _, _)
ServeAll(conn, texts, now) ==
    IF texts = <<>> THEN conn
    ELSE LET parsed == parse_transaction_text(Head(texts))
         IN  ServeAll(ExecuteUpdate(ExecuteInsert(conn, now, parsed), now, parsed),
                      Tail(texts), now)

\* an earlier run: ten sales without amount, then a purchase of sugar
EarlierRun ==
    [k \in 1..MinHistory |-> T_sold]
    \o <<T_bought \o <<" ", "1", "0">> \o T_packets \o T_sugar \o <<" ", "r", "s", "1">>>>

Fresh == OpenTransaction(<<>>, <<>>, 0)

\* init_db creates the tables only if they do not exist: the service starts on a
\* fresh file or on the file an earlier run left
StartFiles == {Fresh, ServeAll(Fresh, EarlierRun, 0)}

\* the days since the earlier run at which the service starts again
StartDays == {0, WindowDays, WindowDays + 1}

Init ==
    /\ \E file \in StartFiles :
        /\ transactions = file.transactions
        /\ inventory = file.inventory
        /\ inv_seq = file.inv_seq
    /\ writer = 0
    /\ today \in StartDays
    /\ req = [r \in Threads |-> IdleRequest]
    /\ submits = 0
    /\ call = None

\* lines 192-200: the body is read, an empty text is refused, the text is parsed.
\* The server hands a request to the first thread that is free; the thread's
\* locals of its previous request are dropped
Receive(r, data) ==
    /\ req[r].pc \in {"idle", "done"}
    /\ \A other \in 1..(r - 1) : req[other].pc \notin {"idle", "done"}
    /\ submits < MaxSubmits
    /\ submits' = submits + 1
    /\ req' = [req EXCEPT ![r] =
            IF NoInput(GetText(data))
            THEN [IdleRequest EXCEPT !.pc = "done", !.data = data,
                                     !.response = ErrorResponse(400, "No input provided")]
            ELSE [IdleRequest EXCEPT !.pc = "insert", !.data = data,
                                     !.parsed = parse_transaction_text(GetText(data))]]
    /\ UNCHANGED <<transactions, inventory, inv_seq, writer, today, call>>

\* lines 203-211: the INSERT begins the connection's transaction and takes the write lock
Insert(r) ==
    /\ req[r].pc = "insert"
    /\ LockFree(writer)
    /\ writer' = r
    /\ LET conn == ExecuteInsert(OpenTransaction(transactions, inventory, inv_seq),
                                 today, req[r].parsed)
       IN  /\ req' = [req EXCEPT ![r].pc = "update", ![r].timestamp = today, ![r].conn = conn,
                                 ![r].rowid = Len(conn.transactions)]
           /\ transactions' = VisibleUncommitted(transactions, conn.transactions)
    /\ UNCHANGED <<inventory, inv_seq, today, submits, call>>

\* the INSERT finds the lock held until its busy timeout: sqlite3.OperationalError
InsertLocked(r) ==
    /\ req[r].pc = "insert"
    /\ ~LockFree(writer)
    /\ req' = [req EXCEPT ![r].pc = "done",
                          ![r].response = ErrorResponse(500, "database is locked")]
    /\ UNCHANGED <<transactions, inventory, inv_seq, writer, today, submits, call>>

\* lines 213-225: the inventory statement
Update(r) ==
    /\ req[r].pc = "update"
    /\ ~UpdateRaises(req[r].parsed)
    /\ LET conn == ExecuteUpdate(req[r].conn, req[r].timestamp, req[r].parsed)
       IN  /\ req' = [req EXCEPT ![r].pc = "commit", ![r].conn = conn]
           /\ inventory' = VisibleUncommitted(inventory, conn.inventory)
    /\ UNCHANGED <<transactions, inv_seq, writer, today, submits, call>>

\* what becomes of the tables when a request leaves through the except clause
\* with its transaction open: nothing was committed
AfterException(committed, working) == committed

\* lines 213-225 raise (the division by a zero quantity, or the statement's
\* sqlite3.Error); lines 271-272 answer 500.  The connection is neither
\* committed nor closed: it keeps the lock until it is finalized
UpdateFails(r, message) ==
    /\ req[r].pc = "update"
    /\ message = "float division by zero" => UpdateRaises(req[r].parsed)
    /\ req' = [req EXCEPT ![r].pc = "done", ![r].response = ErrorResponse(500, message)]
    /\ transactions' = AfterException(transactions, req[r].conn.transactions)
    /\ inventory' = AfterException(inventory, req[r].conn.inventory)
    /\ writer' = Leaked
    /\ UNCHANGED <<inv_seq, today, submits, call>>

\* the garbage collector closes the leaked connection: its transaction is rolled back
Finalize ==
    /\ writer = Leaked
    /\ writer' = 0
    /\ UNCHANGED <<transactions, inventory, inv_seq, today, req, submits, call>>

\* lines 227-228: conn.commit(), conn.close()
Commit(r) ==
    /\ req[r].pc = "commit"
    /\ transactions' = req[r].conn.transactions
    /\ inventory' = req[r].conn.inventory
    /\ inv_seq' = req[r].conn.inv_seq
    /\ writer' = 0
    /\ req' = [req EXCEPT ![r].pc = "forecast", ![r].conn = None]
    /\ UNCHANGED <<today, submits, call>>

\* line 231
Forecast(r) ==
    /\ req[r].pc = "forecast"
    /\ \E cf_result \in cash_flow_forecast(transactions, today) :
        req' = [req EXCEPT ![r].pc = "monitor", ![r].cf_result = cf_result]
    /\ UNCHANGED <<transactions, inventory, inv_seq, writer, today, submits, call>>

\* line 232
Monitor(r) ==
    /\ req[r].pc = "monitor"
    /\ req' = [req EXCEPT ![r].pc = "detect", ![r].inv_result = inventory_alert(inventory)]
    /\ UNCHANGED <<transactions, inventory, inv_seq, writer, today, submits, call>>

\* lines 233-269: the detector, the alerts and the response
Detect(r) ==
    /\ req[r].pc = "detect"
    /\ \E fraud_result \in fraud_detection(transactions, req[r].parsed.amount) :
        req' = [req EXCEPT
            ![r].pc = "done",
            ![r].response =
                [status |-> 200,
                 success |-> TRUE,
                 parsed_transaction |-> req[r].parsed,
                 agents |-> [cash_flow |-> req[r].cf_result,
                             inventory |-> req[r].inv_result,
                             fraud |-> fraud_result],
                 alerts |-> GenerateAlerts(req[r].cf_result, req[r].inv_result, fraud_result)]]
    /\ UNCHANGED <<transactions, inventory, inv_seq, writer, today, submits, call>>

Next ==
    \/ \E r \in Threads, data \in Bodies : Receive(r, data)
    \/ \E r \in Threads : Insert(r)
    \/ \E r \in Threads : InsertLocked(r)
    \/ \E r \in Threads : Update(r)
    \/ \E r \in Threads, message \in {"float division by zero", "disk I/O error"} :
            UpdateFails(r, message)
    \/ Finalize
    \/ \E r \in Threads : Commit(r)
    \/ \E r \in Threads : Forecast(r)
    \/ \E r \in Threads : Monitor(r)
    \/ \E r \in Threads : Detect(r)

Spec == Init /\ [][Next]_vars

-----------------------------------------------------------------------------
(* The agents called on their own, on the ledgers of earlier runs *)

MaxHistory == 11
MaxWindowRows == 3

\* what parse_transaction_text returns for a text that names no catalog item
\* and no quantity
GeneralParsed(type, amount) ==
    [item |-> "general", amount |-> amount, type |-> type, quantity |-> 1,
     payment_method |-> "cash"]

\* the ledger after the transactions entries (type, amount, day) were served in turn
RECURSIVE LedgerOf(_)
LedgerOf(entries) ==
    IF entries = <<>> THEN <<>>
    ELSE LET last == entries[Len(entries)]
         IN  InsertTransaction(LedgerOf(SubSeq(entries, 1, Len(entries) - 1)),
                               last.day, GeneralParsed(last.type, last.amount))

SequencesUpTo(S, n) == UNION {[1..k -> S] : k \in 0..n}

\* sales without amount or of one rupee, after at most one purchase
HistoryEntries ==
    {prefix \o sales :
        prefix \in {<<>>, <<[type |-> "purchase", amount |-> 100, day |-> 0]>>},
        sales \in SequencesUpTo({[type |-> "sale", amount |-> a, day |-> 0] : a \in {0, 100}},
                                MaxHistory)}

QuietRest ==
    /\ inventory = <<>>
    /\ inv_seq = 0
    /\ writer = 0
    /\ req = [r \in Threads |-> IdleRequest]
    /\ submits = 0
    /\ call = None

InitFraud ==
    /\ \E entries \in HistoryEntries : transactions = LedgerOf(entries)
    /\ today = 0
    /\ QuietRest

CallFraudDetection(amount) ==
    /\ \E result \in fraud_detection(transactions, amount) :
        call' = [function |-> "fraud_detection", argument |-> amount, result |-> result]
    /\ UNCHANGED <<transactions, inventory, inv_seq, writer, today, req, submits>>

NextFraud == \E amount \in {0, 100, 101} : CallFraudDetection(amount)

SpecFraud == InitFraud /\ [][NextFraud]_vars

\* sales and purchases of the last two days
WindowEntries ==
    {entries \in SequencesUpTo([type : {"sale", "purchase"},
                                amount : {0, 10, 900000, 1200000},
                                day : {0, 1}], MaxWindowRows) :
        \A k \in 1..(Len(entries) - 1) : entries[k].day <= entries[k + 1].day}

InitForecast ==
    /\ \E entries \in WindowEntries : transactions = LedgerOf(entries)
    /\ today \in {1, WindowDays, WindowDays + 1, WindowDays + 2}
    /\ QuietRest

CallForecast ==
    /\ \E result \in cash_flow_forecast(transactions, today) :
        call' = [function |-> "cash_flow_forecast", result |-> result]
    /\ UNCHANGED <<transactions, inventory, inv_seq, writer, today, req, submits>>

NextForecast == CallForecast

SpecForecast == InitForecast /\ [][NextForecast]_vars

-----------------------------------------------------------------------------
(* Vocabulary of the properties *)

Range(f) == {f[k] : k \in DOMAIN f}

HasParsed(r) == "quantity" \in DOMAIN req[r].parsed

HasConnection(r) == "transactions" \in DOMAIN req[r].conn

Succeeded(r) ==
    req[r].pc = "done" /\ req[r].response.status = 200

\* the step in which request r commits its two writes
CommitStep(r) == req[r].pc = "commit" /\ req'[r].pc = "forecast"

\* the step in which the inventory statement of request r raises
FailedUpdateStep(r) == req[r].pc = "update" /\ req'[r].pc = "done"

RowsOf(inv, item) == {k \in DOMAIN inv : inv[k].item_name = item}

\* the row a request inserted, as its connection holds it
InsertedRow(r) == req[r].conn.transactions[req[r].rowid]

-----------------------------------------------------------------------------
(* C1 *)

\* C1: every parsed transaction has amount >= 0 and quantity >= 1, whatever
\* the text; every transaction answered with success too.
C1_ParsedAmountAndQuantity ==
    \A r \in Threads :
        HasParsed(r) => req[r].parsed.amount >= 0 /\ req[r].parsed.quantity >= 1

-----------------------------------------------------------------------------
(* C2 *)

\* C2: the commit of a sale of item i with quantity q turns the quantity n of
\* the inventory row of i into exactly n - q (no clamping at zero), leaves
\* every other row as it is, and leaves the table as it is when i has no row.
C2_SaleDecrementsExactly ==
    [][\A r \in Threads :
        (CommitStep(r) /\ req[r].parsed.type = "sale") =>
            /\ DOMAIN inventory' = DOMAIN inventory
            /\ \A k \in DOMAIN inventory :
                IF inventory[k].item_name = req[r].parsed.item
                THEN /\ inventory'[k].quantity = inventory[k].quantity - req[r].parsed.quantity
                     /\ inventory'[k].id = inventory[k].id
                     /\ inventory'[k].item_name = inventory[k].item_name
                     /\ inventory'[k].reorder_level = inventory[k].reorder_level
                     /\ inventory'[k].unit_price = inventory[k].unit_price
                     /\ inventory'[k].last_updated = inventory[k].last_updated
                ELSE inventory'[k] = inventory[k]
            /\ (RowsOf(inventory, req[r].parsed.item) = {} => inventory' = inventory)
      ]_vars

\* a sale was committed that took a quantity below zero
C2_Witness ==
    \E k \in DOMAIN inventory :
        /\ inventory[k].quantity < 0
        /\ \E t \in DOMAIN transactions :
            transactions[t].type = "sale" /\ transactions[t].item = inventory[k].item_name

-----------------------------------------------------------------------------
(* C3 *)

-----------------------------------------------------------------------------
(* C6 *)

IsNone(x) == "none" \in DOMAIN x

\* the items the monitor has to report for a table: the rows at or below
\* their reorder level, in the order of the table
RECURSIVE LowItems(_)
LowItems(inv) ==
    IF inv = <<>> THEN <<>>
    ELSE (IF Head(inv).quantity > Head(inv).reorder_level THEN <<>> ELSE <<Head(inv).item_name>>)
         \o LowItems(Tail(inv))

\* C6: the monitor reports exactly the rows with quantity <= reorder_level, in
\* table order, and stock_low exactly when there is one; the alerts of a
\* successful submit are one cash_flow alert (high) iff shortage_predicted,
\* then one inventory alert (medium) per reported item in that order, then one
\* fraud alert (critical) iff fraud_suspected, and nothing else.
C6_AlertList ==
    [][\A r \in Threads :
        /\ (req[r].pc = "monitor" /\ req'[r].pc = "detect") =>
            LET reported == req'[r].inv_result.items_to_reorder
            IN  /\ [k \in DOMAIN reported |-> reported[k].item] = LowItems(inventory)
                /\ \A k \in DOMAIN reported : reported[k].current <= reported[k].reorder_level
                /\ req'[r].inv_result.stock_low = (LowItems(inventory) # <<>>)
        /\ (req[r].pc = "detect" /\ req'[r].pc = "done") =>
            LET agents == req'[r].response.agents
                alerts == req'[r].response.alerts
                nCash == IF agents.cash_flow.shortage_predicted THEN 1 ELSE 0
                nInv == Len(agents.inventory.items_to_reorder)
                nFraud == IF agents.fraud.fraud_suspected THEN 1 ELSE 0
            IN  /\ agents.cash_flow = req[r].cf_result
                /\ agents.inventory = req[r].inv_result
                /\ Len(alerts) = nCash + nInv + nFraud
                /\ nCash = 1 =>
                    /\ alerts[1].type = "cash_flow"
                    /\ alerts[1].severity = "high"
                    /\ alerts[1].message = agents.cash_flow.recommendation
                /\ \A k \in 1..nInv :
                    /\ alerts[nCash + k].type = "inventory"
                    /\ alerts[nCash + k].severity = "medium"
                    /\ alerts[nCash + k].message[2] = agents.inventory.items_to_reorder[k].item
                /\ nFraud = 1 =>
                    /\ alerts[Len(alerts)].type = "fraud"
                    /\ alerts[Len(alerts)].severity = "critical"
                    /\ alerts[Len(alerts)].message = agents.fraud.reason
                /\ agents.inventory.stock_low = (\E k \in DOMAIN alerts : alerts[k].type = "inventory")
      ]_vars

\* a response that carries the three kinds of alert, in order
C6_Witness ==
    \E r \in Threads :
        /\ Succeeded(r)
        /\ Len(req[r].response.alerts) >= 3
        /\ req[r].response.alerts[1].type = "cash_flow"
        /\ req[r].response.alerts[2].type = "inventory"
        /\ req[r].response.alerts[Len(req[r].response.alerts)].type = "fraud"

-----------------------------------------------------------------------------
(* C7 *)

EmptyBody(data) == ~IsNone(data) /\ ("text" \notin DOMAIN data \/ data.text = <<>>)

\* C7: a request whose text is missing or empty is answered with the error
\* "No input provided" in the step that receives it: nothing is parsed, no
\* connection is opened, no agent runs, and the tables and the lock are as before.
C7_EmptyTextRefused ==
    [][\A r \in Threads :
        (req'[r] # req[r] /\ EmptyBody(req'[r].data)) =>
            /\ req'[r].pc = "done"
            /\ req'[r].response.status = 400
            /\ req'[r].response.error = <<"No input provided">>
            /\ IsNone(req'[r].parsed)
            /\ IsNone(req'[r].conn)
            /\ IsNone(req'[r].cf_result)
            /\ IsNone(req'[r].inv_result)
            /\ UNCHANGED <<transactions, inventory, inv_seq, writer>>
      ]_vars

\* a request without the text key was refused
C7_Witness ==
    \E r \in Threads :
        /\ req[r].pc = "done"
        /\ req[r].response.status = 400
        /\ "other" \in DOMAIN req[r].data

-----------------------------------------------------------------------------
(* C8 *)

\* C8 as claimed: when the inventory statement raises after the insert was
\* executed, the request answers an error and the inserted row is in the ledger.
C8_RowStaysCommitted ==
    [][\A r \in Threads :
        FailedUpdateStep(r) =>
            /\ req'[r].response.status = 500
            /\ InsertedRow(r) \in Range(transactions')
            /\ inventory' = inventory
      ]_vars

\* C8, amended: when the inventory statement raises after the insert was
\* executed, the request answers an error and neither write is committed: the
\* ledger is the one the connection found before its insert and does not hold
\* the inserted row, the inventory is untouched; closing the leaked connection
\* later changes nothing either.
C8_NothingCommitted ==
    [][/\ \A r \in Threads :
            FailedUpdateStep(r) =>
                /\ req'[r].response.status = 500
                /\ InsertedRow(r) \notin Range(transactions')
                /\ transactions' = SubSeq(req[r].conn.transactions, 1, req[r].rowid - 1)
                /\ inventory' = inventory
                /\ inv_seq' = inv_seq
       /\ (writer = Leaked /\ writer' # Leaked) =>
                UNCHANGED <<transactions, inventory, inv_seq>>
      ]_vars

\* a request failed in its inventory statement, after its insert, and the
\* ledger does not hold its row
C8_Witness ==
    \E r \in Threads :
        /\ req[r].pc = "done"
        /\ req[r].response.status = 500
        /\ HasConnection(r)
        /\ req[r].rowid = Len(req[r].conn.transactions)
        /\ InsertedRow(r) \notin Range(transactions)

-----------------------------------------------------------------------------
(* C9 *)

InWriteSection(r) == req[r].pc \in {"update", "commit"}

QuantityIn(inv, item) ==
    IF RowsOf(inv, item) = {} THEN 0
    ELSE inv[CHOOSE k \in RowsOf(inv, item) : TRUE].quantity

-----------------------------------------------------------------------------
(* C10 *)

AnalysisStep(r) ==
    req[r].pc \in {"forecast", "monitor", "detect"} /\ req'[r].pc # req[r].pc

\* C10: the commit publishes both writes of the request; each analysis pass
\* runs afterwards, with the request's connection closed and its row in the
\* ledger, and changes neither table; the row is in the forecaster's window,
\* so that the forecast of a submit is never the one of an empty window, and
\* the row of a sale is among the sale rows the detector reads.
C10_AnalysisAfterCommit ==
    [][\A r \in Threads :
        /\ CommitStep(r) =>
            /\ transactions' = req[r].conn.transactions
            /\ inventory' = req[r].conn.inventory
            /\ req[r].parsed.type = "purchase" => RowsOf(inventory', req[r].parsed.item) # {}
        /\ AnalysisStep(r) =>
            /\ UNCHANGED <<transactions, inventory, inv_seq>>
            /\ writer # r
            /\ IsNone(req[r].conn)
            /\ req[r].rowid \in DOMAIN transactions
            /\ transactions[req[r].rowid].timestamp = req[r].timestamp
            /\ transactions[req[r].rowid].item = req[r].parsed.item
            /\ transactions[req[r].rowid].amount = req[r].parsed.amount
            /\ transactions[req[r].rowid].type = req[r].parsed.type
            /\ transactions[req[r].rowid].timestamp >= today - 30
            /\ req[r].pc = "forecast" => "daily_avg_flow" \in DOMAIN req'[r].cf_result
      ]_vars

\* a sale was answered with success, its row is in the ledger and its
\* forecast was computed
C10_Witness ==
    \E r \in Threads :
        /\ Succeeded(r)
        /\ req[r].parsed.type = "sale"
        /\ req[r].rowid \in DOMAIN transactions
        /\ transactions[req[r].rowid].amount = req[r].parsed.amount
        /\ "daily_avg_flow" \in DOMAIN req[r].response.agents.cash_flow

-----------------------------------------------------------------------------
(* C4 *)

RECURSIVE SumOver(_, _)
\* the sum of f over the finite set S of its indices
SumOver(f, S) ==
    IF S = {} THEN 0
    ELSE LET k == CHOOSE k \in S : TRUE IN f[k] + SumOver(f, S \ {k})

SaleRows == {k \in DOMAIN transactions : transactions[k].type = "sale"}

CalledFraud == ~IsNone(call) /\ call.function = "fraud_detection"

\* C4: with fewer than 10 sale amounts in the ledger the answer is "not
\* suspected, Insufficient data" for every amount; with n >= 10 amounts of sum
\* s and sum of squares q the amount a is suspected exactly when
\* a > s/n + 3 * sqrt(q/n - (s/n)^2), that is when n*a - s > 0 and
\* (n*a - s)^2 > 9 * (n*q - s^2); an amount at the threshold is not.
C4_FraudThreshold ==
    CalledFraud =>
        LET n == Cardinality(SaleRows)
            sum == SumOver([k \in DOMAIN transactions |-> transactions[k].amount], SaleRows)
            squares == SumOver([k \in DOMAIN transactions |->
                                    transactions[k].amount * transactions[k].amount], SaleRows)
            excess == n * call.argument - sum
        IN  IF n < 10
            THEN /\ call.result.fraud_suspected = FALSE
                 /\ call.result.reason = <<"Insufficient data">>
            ELSE call.result.fraud_suspected =
                    (excess > 0 /\ excess * excess > 9 * (n * squares - sum * sum))

\* ten sale amounts and an amount exactly at their threshold (nine sales
\* without amount and one of 1.00: mean 0.10, deviation 0.30), not suspected
C4_Witness ==
    /\ CalledFraud
    /\ Cardinality(SaleRows) = 10
    /\ call.argument = 100
    /\ SumOver([k \in DOMAIN transactions |-> transactions[k].amount], SaleRows) = 100
    /\ call.result.fraud_suspected = FALSE
    /\ call.result.reason = <<"Transaction within normal range">>

-----------------------------------------------------------------------------
(* C5 *)

WindowRows(type) ==
    {k \in DOMAIN transactions :
        transactions[k].timestamp >= today - 30 /\ transactions[k].type = type}

WindowSum(type) ==
    SumOver([k \in DOMAIN transactions |-> transactions[k].amount], WindowRows(type))

WindowIsEmpty == WindowRows("sale") \cup WindowRows("purchase") = {}

CalledForecast == ~IsNone(call) /\ call.function = "cash_flow_forecast"

EmptyWindowAnswer ==
    /\ call.result.shortage_predicted = FALSE
    /\ call.result.recommendation = <<"Insufficient data">>
    /\ "daily_avg_flow" \notin DOMAIN call.result

\* C5 as claimed: on a window that is not empty the forecast returns
\* daily_avg_flow = (S - P) / 30, shortage_predicted exactly when S < P, and a
\* negative daily_avg_flow exactly when shortage_predicted.
C5_FlowIsExactQuotient ==
    CalledForecast =>
        IF WindowIsEmpty THEN EmptyWindowAnswer
        ELSE /\ 30 * call.result.daily_avg_flow = WindowSum("sale") - WindowSum("purchase")
             /\ call.result.shortage_predicted = (WindowSum("sale") < WindowSum("purchase"))
             /\ call.result.shortage_predicted = (call.result.daily_avg_flow < 0)

\* C5, amended: on a window that is not empty the forecast returns (S - P) / 30
\* rounded to the hundredth as daily_avg_flow and shortage_predicted exactly
\* when S < P; a negative daily_avg_flow comes with shortage_predicted and a
\* positive one without, but a shortage of less than half a hundredth a day
\* is returned with daily_avg_flow zero.  The empty window is answered
\* "no shortage, Insufficient data" without daily_avg_flow.
C5_FlowIsRoundedQuotient ==
    CalledForecast =>
        IF WindowIsEmpty THEN EmptyWindowAnswer
        ELSE LET net == WindowSum("sale") - WindowSum("purchase")
                 flow == call.result.daily_avg_flow
             IN  /\ 2 * (30 * flow - net) <= 30
                 /\ 2 * (net - 30 * flow) <= 30
                 /\ call.result.shortage_predicted = (net < 0)
                 /\ flow < 0 => call.result.shortage_predicted
                 /\ flow > 0 => ~call.result.shortage_predicted

\* a shortage is predicted and the flow returned is zero
C5_Witness ==
    /\ CalledForecast
    /\ ~WindowIsEmpty
    /\ call.result.shortage_predicted
    /\ call.result.daily_avg_flow = 0

=============================================================================
